---- MODULE Spec2Model ----
(***************************************************************************)
(* A model of src/dataloader.py: the REMI event encoder, the boundary      *)
(* normalisation done when a dataset is built, the bar-window sampler, the *)
(* pitch augmenter and the encoder/decoder tensor builder.                 *)
(*                                                                         *)
(* Python lists and numpy arrays are TLA+ sequences; a Python index i is   *)
(* the TLA+ index i + 1.  None is the integer -1 (no field that can be     *)
(* None holds a negative number in the program).                           *)
(***************************************************************************)
EXTENDS Integers, Sequences, FiniteSets, TLC

VARIABLES
  bar_pos_file,   \* the boundary list stored with the piece (pickle, element 0)
  p_evs,          \* the piece's token sequence (pickle, element 1 / element 0)
  attr_file,      \* the stored per-bar attribute labels of the piece
  cfg,            \* the constructor's arguments
  piece_bar_pos,  \* self.piece_bar_pos[piece_idx] once build_dataset has run
  pc,             \* where the pipeline stands
  item,           \* the record the last __getitem__ returned
  music,          \* the music object given to to_remi_event_sequence
  bar_events,     \* the event list given to pitch_augment
  n_keys,         \* pitch_augment's current draw
  aug_out,        \* what pitch_augment returned
  pieces,         \* self.pieces: the token sequence of every piece file
  all_bar_pos,    \* self.piece_bar_pos of a dataset of several pieces
  res,            \* the res argument of to_remi_event_sequence
  remi_seq        \* the REMIEventSequence it returned (its event strings)

vars == <<bar_pos_file, p_evs, attr_file, cfg, piece_bar_pos, pc, item,
          music, bar_events, n_keys, aug_out,
          pieces, all_bar_pos, res, remi_seq>>

(***************************************************************************)
(* Bounds of the model.                                                    *)
(***************************************************************************)
MaxLen == 4          \* longest stored token sequence
MaxBars == 3         \* largest model_max_bars
MaxEncSeqlen == 3    \* largest model_enc_seqlen
MaxDecSeqlen == 3    \* largest model_dec_seqlen
MaxAppoint == 1      \* largest appoint_st_bar

None == -1

\* res, the default resolution of to_remi_event_sequence
Res == 24

(***************************************************************************)
(* Python helpers.                                                         *)
(***************************************************************************)
Min(a, b) == IF a <= b THEN a ELSE b
Max(a, b) == IF a >= b THEN a ELSE b
Last(s) == s[Len(s)]
Front(s) == SubSeq(s, 1, Len(s) - 1)
\* s[a:b] for 0 <= a
Slice(s, a, b) == SubSeq(s, Min(a, Len(s)) + 1, Min(b, Len(s)))
\* [v] * n, empty when n <= 0
Repeat(v, n) == [i \in 1..n |-> v]

RECURSIVE SortSet(_)
SortSet(S) ==
  IF S = {} THEN <<>>
  ELSE LET m == CHOOSE x \in S : \A y \in S : y <= x
       IN Append(SortSet(S \ {m}), m)

(***************************************************************************)
(* get_remi_indexer: the event keys in the order the code inserts them;    *)
(* the code of a key is its rank in that order.  "note_on_60" is the pair  *)
(* <<"note_on", 60>>, "bar" is <<"bar">>.                                  *)
(***************************************************************************)
RemiKeys ==
  <<  <<"bar">>, <<"eos">>  >>
  \o [i \in 1..128 |-> <<"note_on", i - 1>>]
  \o [i \in 1..64 |-> <<"note_duration", i>>]
  \o [i \in 1..32 |-> <<"note_velocity", i - 1>>]
  \o [i \in 1..24 |-> <<"position", i - 1>>]
  \o [i \in 1..180 |-> <<"tempo", 29 + i>>]

get_remi_indexer(key) ==
  (CHOOSE i \in 1..Len(RemiKeys) : RemiKeys[i] = key) - 1

\* read_vocab
bar_token == get_remi_indexer(<<"bar">>)
eos_token == get_remi_indexer(<<"eos">>)
pad_token == Len(RemiKeys)

\* __init__: the decoder's end padding value
DecEndPadValue(dec_end_pad_value) ==
  IF dec_end_pad_value = "None" THEN pad_token
  ELSE IF dec_end_pad_value = "EOS" THEN eos_token
  ELSE pad_token

(***************************************************************************)
(* build_dataset, the boundary normalisation of one piece: drop a trailing *)
(* boundary equal to len(p_evs), drop the boundary of a 2-token last bar,  *)
(* append len(p_evs).  bar_pos[-1] of an empty list raises IndexError.     *)
(***************************************************************************)
\* a mutant of NormalizeBarPos: a 2-token last bar keeps its boundary
NormalizeBarPos_KeepLastBar(bar_pos, n_evs) ==
  IF Len(bar_pos) = 0 THEN [ok |-> FALSE, bar_pos |-> <<>>]
  ELSE LET b1 == IF Last(bar_pos) = n_evs THEN Front(bar_pos) ELSE bar_pos
       IN IF Len(b1) = 0 THEN [ok |-> FALSE, bar_pos |-> <<>>]
          ELSE [ok |-> TRUE, bar_pos |-> Append(b1, n_evs)]

NormalizeBarPos(bar_pos, n_evs) ==
  IF Len(bar_pos) = 0 THEN [ok |-> FALSE, bar_pos |-> <<>>]
  ELSE LET b1 == IF Last(bar_pos) = n_evs THEN Front(bar_pos) ELSE bar_pos
       IN IF Len(b1) = 0 THEN [ok |-> FALSE, bar_pos |-> <<>>]
          ELSE LET b2 == IF n_evs - Last(b1) = 2 THEN Front(b1) ELSE b1
               IN [ok |-> TRUE, bar_pos |-> Append(b2, n_evs)]

(***************************************************************************)
(* get_sample_from_file.  The random draw of the start bar is the          *)
(* parameter st, taken from PickedStBarChoices.                            *)
(***************************************************************************)
PickedStBarChoices(pbp, N, appoint_st_bar) ==
  IF Len(pbp) > N /\ appoint_st_bar = None THEN 0..(Len(pbp) - N - 1)
  ELSE IF appoint_st_bar # None /\ appoint_st_bar < Len(pbp) - N
       THEN {appoint_st_bar}
       ELSE {0}

\* a mutant of get_sample_from_file: the window's boundaries are not rebased
get_sample_from_file_NoRebase(piece_evs, pbp, N, st) ==
  IF Len(pbp) > N
  THEN [piece_evs |-> Slice(piece_evs, pbp[st + 1], pbp[st + N + 1]),
        picked_st_bar |-> st,
        picked_bar_pos |-> [i \in 1..N |-> pbp[st + i]],
        n_bars |-> N,
        ok |-> TRUE]
  ELSE LET picked == pbp \o Repeat(Last(pbp), N - Len(pbp))
       IN [piece_evs |-> piece_evs,
           picked_st_bar |-> st,
           picked_bar_pos |-> picked,
           n_bars |-> Len(pbp),
           ok |-> Len(picked) = N]

get_sample_from_file(piece_evs, pbp, N, st) ==
  IF Len(pbp) > N
  THEN [piece_evs |-> Slice(piece_evs, pbp[st + 1], pbp[st + N + 1]),
        picked_st_bar |-> st,
        picked_bar_pos |-> [i \in 1..N |-> pbp[st + i] - pbp[st + 1]],
        n_bars |-> N,
        ok |-> TRUE]
  ELSE LET picked == pbp \o Repeat(Last(pbp), N - Len(pbp))
       IN [piece_evs |-> piece_evs,
           picked_st_bar |-> st,
           picked_bar_pos |-> picked,
           n_bars |-> Len(pbp),
           ok |-> Len(picked) = N]

\* a mutant of pad_sequence: one pad value too few
pad_sequence_ShortByOne(seq, maxlen, pad_value) ==
  seq \o Repeat(pad_value, maxlen - Len(seq) - 1)

\* pad_sequence
pad_sequence(seq, maxlen, pad_value) ==
  seq \o Repeat(pad_value, maxlen - Len(seq))

\* get_attr_classes, for one stored label list
get_attr_classes(stored, st_bar, N) ==
  LET cls == Slice(stored, st_bar, st_bar + N)
  IN cls \o Repeat(0, N - Len(cls))

(***************************************************************************)
(* __getitem__, the expansion of the per-bar labels: the loop runs over    *)
(* zip(bar_pos[:-1], bar_pos[1:]) of the list get_sample_from_file         *)
(* returned, in order, each pass overwriting arr[b_st:b_ed].               *)
(***************************************************************************)
RECURSIVE ExpandLoop(_, _, _, _)
ExpandLoop(arr, bar_pos, cls, i) ==
  IF i > Len(bar_pos) - 1 THEN arr
  ELSE ExpandLoop(
         [p \in 1..Len(arr) |->
            IF bar_pos[i] <= p - 1 /\ p - 1 < bar_pos[i + 1] THEN cls[i] ELSE arr[p]],
         bar_pos, cls, i + 1)

expand_cls(bar_pos, cls, dec_seqlen) ==
  ExpandLoop([p \in 1..dec_seqlen |-> 0], bar_pos, cls, 1)

(***************************************************************************)
(* get_encoder_input_data.  mask[b, :l] of numpy: the first l columns for  *)
(* l >= 0, all but the last -l for l < 0.                                  *)
(***************************************************************************)
UnmaskedUpTo(l, enc_seqlen) ==
  IF l >= 0 THEN Min(l, enc_seqlen) ELSE Max(enc_seqlen + l, 0)

\* a mutant of get_encoder_input_data: the first two columns are not
\* unmasked unconditionally
get_encoder_input_data_NoMinUnmask(bar_positions, bar_tokens, N, enc_seqlen) ==
  IF Len(bar_positions) # N + 1
  THEN [ok |-> FALSE, enc_input |-> <<>>, enc_padding_mask |-> <<>>, enc_lens |-> <<>>]
  ELSE [ok |-> TRUE,
        enc_input |->
          [b \in 1..N |->
             Slice(pad_sequence(Slice(bar_tokens, bar_positions[b], bar_positions[b + 1]),
                                enc_seqlen, pad_token),
                   0, enc_seqlen)],
        enc_padding_mask |->
          [b \in 1..N |->
             [j \in 1..enc_seqlen |->
                ~(j - 1 < UnmaskedUpTo(bar_positions[b + 1] - bar_positions[b],
                                       enc_seqlen))]],
        enc_lens |-> [b \in 1..N |-> bar_positions[b + 1] - bar_positions[b]]]

get_encoder_input_data(bar_positions, bar_tokens, N, enc_seqlen) ==
  IF Len(bar_positions) # N + 1
  THEN [ok |-> FALSE, enc_input |-> <<>>, enc_padding_mask |-> <<>>, enc_lens |-> <<>>]
  ELSE [ok |-> TRUE,
        enc_input |->
          [b \in 1..N |->
             Slice(pad_sequence(Slice(bar_tokens, bar_positions[b], bar_positions[b + 1]),
                                enc_seqlen, pad_token),
                   0, enc_seqlen)],
        enc_padding_mask |->
          [b \in 1..N |->
             [j \in 1..enc_seqlen |->
                ~(j - 1 < 2)
                /\ ~(j - 1 < UnmaskedUpTo(bar_positions[b + 1] - bar_positions[b],
                                          enc_seqlen))]],
        enc_lens |-> [b \in 1..N |-> bar_positions[b + 1] - bar_positions[b]]]

(***************************************************************************)
(* __getitem__ of REMIFullSongTransformerDataset with do_augment off, for  *)
(* the start bar st that get_sample_from_file drew.  bar_tokens is the     *)
(* local of that name as get_encoder_input_data receives it.               *)
(***************************************************************************)
DecoderFull(bar_tokens, c) ==
  IF c.pad_to_same
  THEN pad_sequence(bar_tokens, c.model_dec_seqlen + 1, pad_token)
  ELSE pad_sequence(bar_tokens, Len(bar_tokens) + 1, DecEndPadValue(c.dec_end_pad_value))

getitem(piece_evs, pbp, attr, c, st) ==
  LET s == get_sample_from_file(piece_evs, pbp, c.model_max_bars, st)
      polyph_cls == get_attr_classes(attr.polyph, s.picked_st_bar, c.model_max_bars)
      rfreq_cls == get_attr_classes(attr.rhythm, s.picked_st_bar, c.model_max_bars)
      bar_tokens == s.piece_evs
      bar_pos == Append(s.picked_bar_pos, Len(bar_tokens))
      enc == get_encoder_input_data(bar_pos, bar_tokens, c.model_max_bars,
                                    c.model_enc_seqlen)
      full == DecoderFull(bar_tokens, c)
      target == Slice(full, 1, Len(full))
      inp == Slice(full, 0, Len(full) - 1)
  IN [ok |-> s.ok /\ enc.ok /\ Len(inp) = Len(target),
      st_bar_id |-> s.picked_st_bar,
      bar_tokens |-> bar_tokens,
      bar_pos |-> bar_pos,
      enc_input |-> enc.enc_input,
      dec_input |-> Slice(inp, 0, c.model_dec_seqlen),
      dec_target |-> Slice(target, 0, c.model_dec_seqlen),
      polyph_cls |-> IF c.use_attr_cls
                     THEN expand_cls(s.picked_bar_pos, polyph_cls, c.model_dec_seqlen)
                     ELSE <<0>>,
      rhymfreq_cls |-> IF c.use_attr_cls
                       THEN expand_cls(s.picked_bar_pos, rfreq_cls, c.model_dec_seqlen)
                       ELSE <<0>>,
      polyph_cls_bar |-> IF c.use_attr_cls THEN polyph_cls ELSE <<0>>,
      rhymfreq_cls_bar |-> IF c.use_attr_cls THEN rfreq_cls ELSE <<0>>,
      length |-> Min(Len(bar_tokens), c.model_dec_seqlen),
      enc_padding_mask |-> enc.enc_padding_mask,
      enc_length |-> enc.enc_lens,
      enc_n_bars |-> s.n_bars]

(***************************************************************************)
(* The stored pieces of the model: a token sequence of length L whose bar  *)
(* markers stand at the stored boundaries (every other token is distinct,  *)
(* so a token tells the position it came from), the boundary list starting *)
(* at 0 and strictly increasing, or empty (a corrupt piece).               *)
(***************************************************************************)
StoredBarPos(L) == {<<>>} \cup {SortSet(S \cup {0}) : S \in SUBSET (1..L)}

InRange(bp, x) == \E i \in 1..Len(bp) : bp[i] = x

PieceTokens(L, bp) ==
  [i \in 1..L |-> IF InRange(bp, i - 1) THEN bar_token
                  ELSE get_remi_indexer(<<"note_on", i>>)]

StoredAttr(bp) ==
  [polyph |-> [i \in 1..Len(bp) |-> i], rhythm |-> [i \in 1..Len(bp) |-> 10 + i]]

NoItem == [ok |-> FALSE]
NoMusic == [barlines |-> <<>>, tempos |-> <<>>, tracks |-> <<>>]

Cfgs ==
  [model_max_bars : 1..MaxBars,
   model_enc_seqlen : 1..MaxEncSeqlen,
   model_dec_seqlen : 1..MaxDecSeqlen,
   appoint_st_bar : None..MaxAppoint,
   pad_to_same : BOOLEAN,
   dec_end_pad_value : {"None", "EOS"},
   use_attr_cls : BOOLEAN,
   do_augment : {FALSE},
   augment_range : {(0 - 6)..6},
   min_pitch : {22},
   max_pitch : {107}]

Init ==
  /\ \E L \in 1..MaxLen : \E bp \in StoredBarPos(L) :
       /\ bar_pos_file = bp
       /\ p_evs = PieceTokens(L, bp)
       /\ attr_file = StoredAttr(bp)
  /\ cfg \in {c \in Cfgs : c.pad_to_same => c.dec_end_pad_value = "None"}
  /\ piece_bar_pos = <<>>
  /\ pc = "constructing"
  /\ item = NoItem
  /\ music = NoMusic
  /\ bar_events = <<>>
  /\ n_keys = 0
  /\ aug_out = <<>>
  /\ pieces = <<>>
  /\ all_bar_pos = <<>>
  /\ res = Res
  /\ remi_seq = <<>>

\* __init__ -> build_dataset (REMIFullSongTransformerDataset), one piece
BuildDataset ==
  /\ pc = "constructing"
  /\ LET r == NormalizeBarPos(bar_pos_file, Len(p_evs))
     IN /\ piece_bar_pos' = r.bar_pos
        /\ pc' = IF r.ok THEN "ready" ELSE "build_error"
  /\ UNCHANGED <<pieces, all_bar_pos, res, remi_seq,
                 bar_pos_file, p_evs, attr_file, cfg, item, music, bar_events,
                 n_keys, aug_out>>

\* __getitem__(0)
GetItem ==
  /\ pc \in {"ready", "sampled"}
  /\ \E st \in PickedStBarChoices(piece_bar_pos, cfg.model_max_bars, cfg.appoint_st_bar) :
       item' = getitem(p_evs, piece_bar_pos, attr_file, cfg, st)
  /\ pc' = "sampled"
  /\ UNCHANGED <<pieces, all_bar_pos, res, remi_seq,
                 bar_pos_file, p_evs, attr_file, cfg, piece_bar_pos, music,
                 bar_events, n_keys, aug_out>>

Next == BuildDataset \/ GetItem

Spec == Init /\ [][Next]_vars

(***************************************************************************)
(* Claims about the sampler and the tensor builder, under Spec.            *)
(***************************************************************************)
Built == pc \in {"ready", "sampled"}
Sampled == pc = "sampled"
\* k, the number of real bars of the normalised piece, and N
RealBars == Len(piece_bar_pos) - 1
NBars == cfg.model_max_bars
\* the tokens [a, b) of the stored piece
PieceSpan(a, b) == [j \in 1..(b - a) |-> p_evs[a + j]]
\* the boundary of piece bar i (0-based)
B(i) == piece_bar_pos[i + 1]

\* C1 (as claimed): get_sample_from_file returns n_bars = min(k, N), the
\* number of real bars of the window: N when k >= N, k when k < N.
C1_NBarsIsRealBarCount ==
  Sampled => item.enc_n_bars = Min(RealBars, NBars)

\* C2: for a normalised piece with k >= 1 bars and B[0] = 0, the boundary
\* list given to get_encoder_input_data has N + 1 entries, starts at 0, is
\* non-decreasing and ends at the window's token count (the assertion
\* passes); for k >= N the window is the piece's tokens [B[s], B[s+N]) and
\* entry i is B[s+i] - B[s]; for k < N the start is 0, the window is the
\* whole piece and every entry past the last boundary repeats it.
C2_LocalBoundaries ==
  (Sampled /\ RealBars >= 1 /\ B(0) = 0) =>
    LET s == item.st_bar_id
        lb == item.bar_pos
    IN /\ item.ok
       /\ Len(lb) = NBars + 1
       /\ lb[1] = 0
       /\ \A i \in 1..NBars : lb[i] <= lb[i + 1]
       /\ lb[NBars + 1] = Len(item.bar_tokens)
       /\ RealBars >= NBars =>
            /\ s \in 0..(RealBars - NBars)
            /\ item.bar_tokens = PieceSpan(B(s), B(s + NBars))
            /\ \A i \in 0..NBars : lb[i + 1] = B(s + i) - B(s)
       /\ RealBars < NBars =>
            /\ s = 0
            /\ item.bar_tokens = p_evs
            /\ \A i \in 0..NBars :
                 lb[i + 1] = IF i <= RealBars THEN B(i) ELSE B(RealBars)

\* C2 witness: a window that starts after bar 0 of a piece longer than N bars
C2_Witness ==
  /\ Sampled /\ B(0) = 0
  /\ RealBars > NBars
  /\ item.st_bar_id > 0
  /\ item.bar_pos[NBars + 1] < Len(p_evs)

\* the label the stored list gives piece bar i (0-based)
PolyphOf(i) == attr_file.polyph[i + 1]
RhythmOf(i) == attr_file.rhythm[i + 1]
\* the real bar of the window that decoder position p belongs to, or -1
WindowBarOf(p) ==
  LET real == {i \in 0..(Min(RealBars, NBars) - 1) :
                 item.bar_pos[i + 1] <= p /\ p < item.bar_pos[i + 2]}
  IN IF real = {} THEN -1 ELSE CHOOSE i \in real : TRUE

\* C4 (as claimed): with attribute classes on, every decoder position below
\* model_dec_seqlen inside real bar i of the window carries bar i's label,
\* the last bar of a full window included, and every other position 0.
C4_LabelsCoverEveryRealBar ==
  (Sampled /\ cfg.use_attr_cls) =>
    \A p \in 0..(cfg.model_dec_seqlen - 1) :
      LET i == WindowBarOf(p)
      IN /\ item.polyph_cls[p + 1] =
              IF i = -1 THEN 0 ELSE PolyphOf(item.st_bar_id + i)
         /\ item.rhymfreq_cls[p + 1] =
              IF i = -1 THEN 0 ELSE RhythmOf(item.st_bar_id + i)

\* C7 (as claimed): normalising an already normalised (boundaries, tokens)
\* pair completes without error and returns the same boundary list.
C7_NormalizeIdempotent ==
  Built => NormalizeBarPos(piece_bar_pos, Len(p_evs))
             = [ok |-> TRUE, bar_pos |-> piece_bar_pos]

\* C8: enc_input and the padding mask have shape (N, model_enc_seqlen); for
\* bar b of length l, column j is unmasked iff j < max(2, min(l, enc_seqlen)),
\* enc_input[b][j] is the window token start[b] + j for j < min(l, enc_seqlen)
\* and the pad code elsewhere, and enc_lens[b] = l.
C8_EncoderInput ==
  Sampled =>
    LET e == cfg.model_enc_seqlen
    IN /\ Len(item.enc_input) = NBars
       /\ Len(item.enc_padding_mask) = NBars
       /\ Len(item.enc_length) = NBars
       /\ \A b \in 1..NBars :
            LET st == item.bar_pos[b]
                l == item.bar_pos[b + 1] - st
            IN /\ Len(item.enc_input[b]) = e
               /\ Len(item.enc_padding_mask[b]) = e
               /\ item.enc_length[b] = l
               /\ \A j \in 0..(e - 1) :
                    /\ item.enc_padding_mask[b][j + 1] = ~(j < Max(2, Min(l, e)))
                    /\ item.enc_input[b][j + 1] =
                         IF j < Min(l, e) THEN item.bar_tokens[st + j + 1]
                         ELSE pad_token

\* C8 witness: one bar longer than the row, one empty bar, rows of 3 columns
C8_Witness ==
  /\ Sampled
  /\ cfg.model_enc_seqlen = 3
  /\ \E b \in 1..NBars : item.enc_length[b] > 3
  /\ \E b \in 1..NBars : item.enc_length[b] = 0 /\ item.enc_padding_mask[b][3]

\* C9: dec_input and dec_target have equal length, dec_target[i] =
\* dec_input[i+1] wherever both exist, dec_input[i] is window token i for
\* i < min(n, dec_seqlen), length = min(n, dec_seqlen); with pad_to_same both
\* have exactly dec_seqlen entries and dec_input holds the pad code from n on.
C9_DecoderShift ==
  Sampled =>
    LET n == Len(item.bar_tokens)
        d == cfg.model_dec_seqlen
    IN /\ Len(item.dec_input) = Len(item.dec_target)
       /\ \A i \in 1..(Len(item.dec_input) - 1) :
            item.dec_target[i] = item.dec_input[i + 1]
       /\ Len(item.dec_input) >= Min(n, d)
       /\ \A i \in 1..Min(n, d) : item.dec_input[i] = item.bar_tokens[i]
       /\ item.length = Min(n, d)
       /\ cfg.pad_to_same =>
            /\ Len(item.dec_input) = d
            /\ Len(item.dec_target) = d
            /\ \A i \in (n + 1)..d : item.dec_input[i] = pad_token

\* C9 witness: a window shorter than model_dec_seqlen, padded to it
C9_Witness ==
  /\ Sampled
  /\ cfg.pad_to_same
  /\ Len(item.bar_tokens) + 1 < cfg.model_dec_seqlen
  /\ item.dec_input[cfg.model_dec_seqlen] = pad_token
  /\ item.dec_target[Len(item.bar_tokens)] = pad_token

(***************************************************************************)
(* The pitch augmenter.  An event is a record [name, value]; a chord value *)
(* "A#_m" is the record [tone |-> "A#", quality |-> "m"], so that          *)
(* split('_')[0] is its tone and replacing "A#_" rewrites exactly the tone *)
(* (a quality holds no '_'); "N_N" is [tone |-> "N", quality |-> "N"].     *)
(***************************************************************************)
MaxEvents == 2       \* longest event list given to pitch_augment

IDX_TO_KEY == <<"A", "A#", "B", "C", "C#", "D", "D#", "E", "F", "F#", "G", "G#">>
KEY_TO_IDX(key) == (CHOOSE i \in 1..Len(IDX_TO_KEY) : IDX_TO_KEY[i] = key) - 1

N_N == [tone |-> "N", quality |-> "N"]

get_chord_tone(chord_event) == chord_event.value.tone

\* a mutant of transpose_chord: the root is rotated the wrong way
transpose_chord_Reversed(chord_event, n) ==
  IF chord_event.value = N_N THEN chord_event
  ELSE LET orig_tone_idx == KEY_TO_IDX(get_chord_tone(chord_event))
           new_tone_idx == (orig_tone_idx + 12 - n) % 12
       IN [name |-> chord_event.name,
           value |-> [tone |-> IDX_TO_KEY[new_tone_idx + 1],
                      quality |-> chord_event.value.quality]]

transpose_chord(chord_event, n) ==
  IF chord_event.value = N_N THEN chord_event
  ELSE LET orig_tone_idx == KEY_TO_IDX(get_chord_tone(chord_event))
           new_tone_idx == (orig_tone_idx + 12 + n) % 12
       IN [name |-> chord_event.name,
           value |-> [tone |-> IDX_TO_KEY[new_tone_idx + 1],
                      quality |-> chord_event.value.quality]]

RECURSIVE ExtremeLoop(_, _, _, _)
ExtremeLoop(raw_events, i, low, high) ==
  IF i > Len(raw_events) THEN <<low, high>>
  ELSE IF raw_events[i].name = "Note_Pitch"
       THEN ExtremeLoop(raw_events, i + 1, Min(low, raw_events[i].value),
                        Max(high, raw_events[i].value))
       ELSE ExtremeLoop(raw_events, i + 1, low, high)

check_extreme_pitch(raw_events) == ExtremeLoop(raw_events, 1, 128, 0)

transpose_events(raw_events, n) ==
  [i \in 1..Len(raw_events) |->
     LET ev == raw_events[i]
     IN IF ev.name = "Note_Pitch" THEN [name |-> ev.name, value |-> ev.value + n]
        ELSE IF ev.name = "Chord" THEN transpose_chord(ev, n)
        ELSE ev]

\* pitch_augment's loop condition: the draw n is rejected
Rejected(n) ==
  LET ext == check_extreme_pitch(bar_events)
  IN ext[1] + n < cfg.min_pitch \/ ext[2] + n > cfg.max_pitch

\* the events the model's windows are made of
EventUniverse ==
  << [name |-> "Note_Pitch", value |-> 10],
     [name |-> "Note_Pitch", value |-> 22],
     [name |-> "Note_Pitch", value |-> 60],
     [name |-> "Note_Pitch", value |-> 64],
     [name |-> "Note_Pitch", value |-> 107],
     [name |-> "Chord", value |-> N_N],
     [name |-> "Chord", value |-> [tone |-> "A", quality |-> "M"]],
     [name |-> "Chord", value |-> [tone |-> "G#", quality |-> "m"]],
     [name |-> "Bar", value |-> "None"],
     [name |-> "Note_Duration", value |-> 480] >>

AugCfgs ==
  [model_max_bars : {16},
   model_enc_seqlen : {128},
   model_dec_seqlen : {1280},
   appoint_st_bar : {None},
   pad_to_same : {TRUE},
   dec_end_pad_value : {"None"},
   use_attr_cls : {TRUE},
   do_augment : {TRUE},
   augment_range : {(0 - 6)..6, (0 - 1)..1},
   min_pitch : {22, 60},
   max_pitch : {107}]

InitAug ==
  /\ \E n \in 0..MaxEvents : \E f \in [1..n -> 1..Len(EventUniverse)] :
       bar_events = [i \in 1..n |-> EventUniverse[f[i]]]
  /\ cfg \in AugCfgs
  /\ pc = "aug_start"
  /\ n_keys = 0
  /\ aug_out = <<>>
  /\ pieces = <<>>
  /\ all_bar_pos = <<>>
  /\ res = Res
  /\ remi_seq = <<>>
  /\ bar_pos_file = <<>>
  /\ p_evs = <<>>
  /\ attr_file = StoredAttr(<<>>)
  /\ piece_bar_pos = <<>>
  /\ item = NoItem
  /\ music = NoMusic

\* n_keys = random.choice(self.augment_range), before the loop
AugDraw ==
  /\ pc = "aug_start"
  /\ n_keys' \in cfg.augment_range
  /\ pc' = "aug_loop"
  /\ UNCHANGED <<pieces, all_bar_pos, res, remi_seq,
                 bar_pos_file, p_evs, attr_file, cfg, piece_bar_pos, item, music,
                 bar_events, aug_out>>

\* one pass of the while loop: the draw is rejected and drawn again
AugRedraw ==
  /\ pc = "aug_loop"
  /\ Rejected(n_keys)
  /\ n_keys' \in cfg.augment_range
  /\ UNCHANGED <<pieces, all_bar_pos, res, remi_seq,
                 bar_pos_file, p_evs, attr_file, cfg, piece_bar_pos, pc, item,
                 music, bar_events, aug_out>>

\* the loop ends: transpose_events and return
AugReturn ==
  /\ pc = "aug_loop"
  /\ ~Rejected(n_keys)
  /\ aug_out' = transpose_events(bar_events, n_keys)
  /\ pc' = "aug_returned"
  /\ UNCHANGED <<pieces, all_bar_pos, res, remi_seq,
                 bar_pos_file, p_evs, attr_file, cfg, piece_bar_pos, item, music,
                 bar_events, n_keys>>

NextAug == AugDraw \/ AugRedraw \/ AugReturn

SpecAug == InitAug /\ [][NextAug]_vars

\* random.choice is fair: a loop that keeps drawing draws again, and draws
\* an accepted shift if there is one
FairSpecAug ==
  /\ InitAug /\ [][NextAug]_vars
  /\ WF_vars(AugDraw)
  /\ WF_vars(AugRedraw)
  /\ WF_vars(AugReturn)
  /\ SF_vars(AugRedraw /\ ~Rejected(n_keys'))

Feasible == \E n \in cfg.augment_range : ~Rejected(n)

\* C5 (as claimed): pitch_augment never hangs: every call ends, also when no
\* shift of augment_range keeps the window's extreme pitches in the band.
C5_PitchAugmentEnds == <>(pc = "aug_returned" \/ pc = "aug_raised")

\* C6: when pitch_augment returns, the output has the input's length, every
\* Note_Pitch value is the input value plus the accepted shift and lies in
\* [min_pitch, max_pitch], an 'N_N' chord is unchanged, every other chord has
\* its root rotated by the shift modulo 12, every other event is unchanged.
C6_TransposeFaithful ==
  (pc = "aug_returned") =>
    /\ Len(aug_out) = Len(bar_events)
    /\ \A i \in 1..Len(bar_events) :
         LET ev == bar_events[i]
             out == aug_out[i]
         IN IF ev.name = "Note_Pitch"
            THEN /\ out.name = "Note_Pitch"
                 /\ out.value = ev.value + n_keys
                 /\ cfg.min_pitch <= out.value /\ out.value <= cfg.max_pitch
            ELSE IF ev.name = "Chord" /\ ev.value # N_N
            THEN /\ out.name = "Chord"
                 /\ out.value.quality = ev.value.quality
                 /\ KEY_TO_IDX(out.value.tone)
                      = (KEY_TO_IDX(ev.value.tone) + n_keys) % 12
            ELSE out = ev

\* C6 witness: a returned window with a note and a chord whose root wraps
\* around under a downward shift
C6_Witness ==
  /\ pc = "aug_returned"
  /\ n_keys < 0
  /\ \E i \in 1..Len(bar_events) : bar_events[i].name = "Note_Pitch"
  /\ \E i \in 1..Len(bar_events) :
       /\ bar_events[i].name = "Chord"
       /\ bar_events[i].value # N_N
       /\ KEY_TO_IDX(aug_out[i].value.tone) > KEY_TO_IDX(bar_events[i].value.tone)

(***************************************************************************)
(* The REMI event encoder and the MSREMIFullSongTransformerDataset built   *)
(* on its output.  A music object is [barlines, tempos, tracks] with       *)
(* integer times at the encoder's resolution (the state after              *)
(* music.adjust_resolution(res)); an event "note_on_60" is <<"note_on",    *)
(* 60>>.                                                                   *)
(***************************************************************************)
MaxNotes == 2        \* most notes of a music object

RECURSIVE Concat(_)
Concat(ss) == IF Len(ss) = 0 THEN <<>> ELSE Head(ss) \o Concat(Tail(ss))

\* ceil(a / b) for b > 0
CeilDiv(a, b) == 0 - ((0 - a) \div b)

\* np.searchsorted(measure_times, time, "right")
SearchSortedRight(measure_times, time) ==
  Cardinality({i \in 1..Len(measure_times) : measure_times[i] <= time})

\* _get_measure_position; a zero measure length makes ceil raise
MeasureLength(measure_times, measure_idx) ==
  IF measure_idx < Len(measure_times) - 1
  THEN measure_times[measure_idx + 2] - measure_times[measure_idx + 1]
  ELSE measure_times[measure_idx + 1] - measure_times[measure_idx]

get_measure_position(measure_times, time, resolution) ==
  LET measure_idx == SearchSortedRight(measure_times, time) - 1
      position == CeilDiv(resolution * (time - measure_times[measure_idx + 1]),
                          MeasureLength(measure_times, measure_idx))
  IN <<measure_idx, position % resolution>>

\* the event strings of REMIEventSequence
to_bar_event == <<"bar">>
to_tempo_event(qpm) == <<"tempo", qpm>>
to_note_on_event(pitch) == <<"note_on", pitch>>
to_note_velocity_event(velocity) == <<"note_velocity", velocity \div 4>>
to_note_duration_event(duration) == <<"note_duration", duration>>
to_position_event(position) == <<"position", position>>

\* a mutant of KeyLeq: equal keys count as out of order, so that a later
\* event goes before the earlier events of its key
KeyLeq_Strict(a, b) == a[1] < b[1] \/ (a[1] = b[1] /\ a[2] < b[2])

\* events.sort(key=itemgetter(0)): a stable sort by (measure_idx, position)
KeyLeq(a, b) == a[1] < b[1] \/ (a[1] = b[1] /\ a[2] <= b[2])

RECURSIVE InsertStable(_, _)
InsertStable(sorted, ev) ==
  IF Len(sorted) = 0 THEN <<ev>>
  ELSE IF KeyLeq(Last(sorted).key, ev.key) THEN Append(sorted, ev)
       ELSE Append(InsertStable(Front(sorted), ev), Last(sorted))

RECURSIVE StableSort(_)
StableSort(events) ==
  IF Len(events) = 0 THEN <<>>
  ELSE InsertStable(StableSort(Front(events)), Last(events))

\* the serialisation loop: a position event before every group but a bar
RECURSIVE Serialize(_)
Serialize(events) ==
  IF Len(events) = 0 THEN <<>>
  ELSE LET ev == Head(events)
       IN (IF ev.group[1] # to_bar_event
           THEN <<to_position_event(ev.key[2])>> ELSE <<>>)
          \o ev.group \o Serialize(Tail(events))

\* the notes the encoder keeps: those of positive duration
Sounding(notes) == SelectSeq(notes, LAMBDA note : note.duration > 0)

\* to_remi_event_sequence(music, res), music being the object after
\* music.adjust_resolution(res)
to_remi_event_sequence(m, resolution) ==
  LET notes == Concat(m.tracks)
      barline_times == IF Len(m.barlines) > 0 /\ m.barlines[1] # 0
                       THEN <<0>> \o m.barlines ELSE m.barlines
      measure_times ==
        SortSet({barline_times[i] : i \in 1..Len(barline_times)})
      bars == [i \in 1..Len(barline_times) |->
                 [key |-> get_measure_position(measure_times, barline_times[i],
                                              resolution),
                  group |-> <<to_bar_event>>]]
      tempos == [i \in 1..Len(m.tempos) |->
                   [key |-> get_measure_position(measure_times, m.tempos[i].time,
                                                resolution),
                    group |-> <<to_tempo_event(Min(209, Max(m.tempos[i].qpm, 30)))>>]]
      kept == Sounding(notes)
      groups == [i \in 1..Len(kept) |->
                   [key |-> get_measure_position(measure_times, kept[i].time,
                                                resolution),
                    group |-> <<to_note_on_event(kept[i].pitch),
                                to_note_velocity_event(kept[i].velocity),
                                to_note_duration_event(
                                  Min(Max(kept[i].duration, 1), resolution * 2))>>]]
  IN IF Len(notes) = 0 THEN [ok |-> FALSE, seq |-> <<>>]
     ELSE IF Len(m.barlines) = 0 THEN [ok |-> FALSE, seq |-> <<>>]
     ELSE IF ~(Len(barline_times) > 1) THEN [ok |-> FALSE, seq |-> <<>>]
     ELSE [ok |-> TRUE,
           seq |-> Append(Serialize(StableSort(bars \o tempos \o groups)), <<"eos">>)]

\* to_remi_event_representation: the sequence, encoded at the default
\* resolution, as an array of codes
to_remi_event_representation(m) ==
  LET r == to_remi_event_sequence(m, Res)
  IN [ok |-> r.ok, codes |-> [i \in 1..Len(r.seq) |-> get_remi_indexer(r.seq[i])]]

\* np.argwhere(p_evs == 0).flatten()
ArgWhereZero(evs) == SortSet({i - 1 : i \in {j \in 1..Len(evs) : evs[j] = 0}})

\* build_dataset of the MS dataset: list(np.ones_like(bar_pos) * (cur_diffs - 1))
PieceBarDiffs(pbp, cur_diffs) == [i \in 1..Len(pbp) |-> cur_diffs - 1]

\* __getitem__ of MSREMIFullSongTransformerDataset with do_augment off; with
\* use_attr_cls off the returned record names diff_cls_expanded, which was
\* never bound (NameError)
ms_getitem(piece_evs, pbp, cur_diffs, c, st) ==
  LET s == get_sample_from_file(piece_evs, pbp, c.model_max_bars, st)
      diff_cls == get_attr_classes(PieceBarDiffs(pbp, cur_diffs), s.picked_st_bar,
                                   c.model_max_bars)
      bar_tokens == s.piece_evs
      bar_pos == Append(s.picked_bar_pos, Len(bar_tokens))
      enc == get_encoder_input_data(bar_pos, bar_tokens, c.model_max_bars,
                                    c.model_enc_seqlen)
      full == DecoderFull(bar_tokens, c)
      target == Slice(full, 1, Len(full))
      inp == Slice(full, 0, Len(full) - 1)
  IN [ok |-> s.ok /\ enc.ok /\ Len(inp) = Len(target) /\ c.use_attr_cls,
      st_bar_id |-> s.picked_st_bar,
      bar_tokens |-> bar_tokens,
      bar_pos |-> bar_pos,
      enc_input |-> enc.enc_input,
      dec_input |-> Slice(inp, 0, c.model_dec_seqlen),
      dec_target |-> Slice(target, 0, c.model_dec_seqlen),
      diff_cls |-> expand_cls(s.picked_bar_pos, diff_cls, c.model_dec_seqlen),
      diff_cls_bar |-> diff_cls,
      length |-> Min(Len(bar_tokens), c.model_dec_seqlen),
      enc_padding_mask |-> enc.enc_padding_mask,
      enc_length |-> enc.enc_lens,
      enc_n_bars |-> s.n_bars]

\* the music objects of the model
Note(t, p, v, d) == [time |-> t, pitch |-> p, velocity |-> v, duration |-> d]

NoteUniverse ==
  << Note(0, 60, 100, 4),
     Note(0, 64, 80, 0),
     Note(50, 64, 100, 4),
     Note(96, 62, 127, 100),
     Note(120, 60, 1, 1),
     Note(30, 67, 64, 0 - 2) >>

BarlineChoices == { <<>>, <<0>>, <<0, 96>>, <<0, 48>>, <<96>>, <<0, 96, 192>> }

TempoChoices ==
  { <<>>, <<[time |-> 0, qpm |-> 120]>>, <<[time |-> 96, qpm |-> 250]>> }

\* the notes as one track, or as one track per note
AsTracks(notes, layout) ==
  IF layout = "one" THEN <<notes>> ELSE [i \in 1..Len(notes) |-> <<notes[i]>>]

MSCfgs ==
  [model_max_bars : {2, 4},
   model_enc_seqlen : {16},
   model_dec_seqlen : {32},
   appoint_st_bar : {None},
   pad_to_same : {TRUE},
   dec_end_pad_value : {"None"},
   use_attr_cls : BOOLEAN,
   do_augment : {FALSE},
   augment_range : {(0 - 6)..6},
   min_pitch : {22},
   max_pitch : {107}]

InitMS ==
  /\ \E n \in 0..MaxNotes : \E f \in [1..n -> 1..Len(NoteUniverse)] :
     \E layout \in {"one", "each"} : \E bl \in BarlineChoices : \E tp \in TempoChoices :
       music = [barlines |-> bl, tempos |-> tp,
                tracks |-> AsTracks([i \in 1..n |-> NoteUniverse[f[i]]], layout)]
  /\ cfg \in MSCfgs
  /\ attr_file = [cur_diffs |-> 3]
  /\ pc = "encoding"
  /\ p_evs = <<>>
  /\ bar_pos_file = <<>>
  /\ piece_bar_pos = <<>>
  /\ item = NoItem
  /\ bar_events = <<>>
  /\ n_keys = 0
  /\ aug_out = <<>>
  /\ pieces = <<>>
  /\ all_bar_pos = <<>>
  /\ res = Res
  /\ remi_seq = <<>>

\* to_remi_event_representation(music), stored as the piece
ToRemiEventRepresentation ==
  /\ pc = "encoding"
  /\ LET r == to_remi_event_representation(music)
     IN /\ p_evs' = r.codes
        /\ pc' = IF r.ok THEN "constructing" ELSE "encode_error"
  /\ UNCHANGED <<pieces, all_bar_pos, res, remi_seq,
                 bar_pos_file, attr_file, cfg, piece_bar_pos, item, music,
                 bar_events, n_keys, aug_out>>

\* __init__ -> build_dataset (MSREMIFullSongTransformerDataset), one piece:
\* an exception while normalising is swallowed and the piece gets no entry
MSBuildDataset ==
  /\ pc = "constructing"
  /\ LET r == NormalizeBarPos(ArgWhereZero(p_evs), Len(p_evs))
     IN piece_bar_pos' = IF r.ok THEN r.bar_pos ELSE <<>>
  /\ pc' = "ready"
  /\ UNCHANGED <<pieces, all_bar_pos, res, remi_seq,
                 bar_pos_file, p_evs, attr_file, cfg, item, music, bar_events,
                 n_keys, aug_out>>

\* __getitem__(0); self.piece_bar_pos[0] raises when the piece has no entry
MSGetItem ==
  /\ pc \in {"ready", "sampled"}
  /\ IF Len(piece_bar_pos) = 0
     THEN item' = NoItem /\ pc' = "item_error"
     ELSE \E st \in PickedStBarChoices(piece_bar_pos, cfg.model_max_bars,
                                       cfg.appoint_st_bar) :
            LET it == ms_getitem(p_evs, piece_bar_pos, attr_file.cur_diffs, cfg, st)
            IN /\ item' = it
               /\ pc' = IF it.ok THEN "sampled" ELSE "item_error"
  /\ UNCHANGED <<pieces, all_bar_pos, res, remi_seq,
                 bar_pos_file, p_evs, attr_file, cfg, piece_bar_pos, music,
                 bar_events, n_keys, aug_out>>

NextMS == ToRemiEventRepresentation \/ MSBuildDataset \/ MSGetItem

SpecMS == InitMS /\ [][NextMS]_vars

\* the 2-bar song of the end-to-end scenario: barlines at the starts of bar
\* 0 and bar 1, one note (pitch 60, velocity 100, duration 4) at bar 0
\* position 0, no tempo; the sample is built with model_max_bars = 4,
\* model_enc_seqlen = 16, model_dec_seqlen = 32
ScenarioNote == Note(0, 60, 100, 4)
IsScenario ==
  /\ music.tracks = <<<<ScenarioNote>>>>
  /\ music.tempos = <<>>
  /\ Len(music.barlines) = 2 /\ music.barlines[1] = 0
  /\ cfg.model_max_bars = 4
  /\ cfg.model_enc_seqlen = 16
  /\ cfg.model_dec_seqlen = 32

C10_NoSoundingNoteRaises ==
  (pc # "encoding" /\ Len(Sounding(Concat(music.tracks))) = 0) =>
    (pc = "encode_error" /\ p_evs = <<>>)

(***************************************************************************)
(* MSREMIFullSongTransformerDataset over several piece files.  build_dataset*)
(* runs the normalisation of every piece inside try/except: a piece whose  *)
(* normalisation raises is passed over with a print, stays in self.pieces  *)
(* and gets no entry in self.piece_bar_pos.                                *)
(***************************************************************************)
MaxPieces == 2       \* most piece files of a dataset

\* the token sequences of the piece files: some token that is neither bar
\* nor eos stands for every other event
NoteTok == get_remi_indexer(<<"note_on", 60>>)

PieceChoices ==
  { <<bar_token, NoteTok, bar_token, NoteTok, NoteTok, eos_token>>,
    <<bar_token, NoteTok, NoteTok, eos_token>>,
    <<bar_token, NoteTok, NoteTok, bar_token, NoteTok, NoteTok, bar_token,
      NoteTok, eos_token>>,
    <<NoteTok, NoteTok, eos_token>>,
    <<NoteTok, bar_token, NoteTok, NoteTok, eos_token>> }

\* the for loop of build_dataset: the pieces whose normalisation does not
\* raise append their boundary list, the others append nothing
RECURSIVE BuildLoop(_)
BuildLoop(ps) ==
  IF Len(ps) = 0 THEN <<>>
  ELSE LET p == Last(ps)
           r == NormalizeBarPos(ArgWhereZero(p), Len(p))
       IN IF r.ok THEN Append(BuildLoop(Front(ps)), r.bar_pos)
          ELSE BuildLoop(Front(ps))

InitPieces ==
  /\ \E n \in 1..MaxPieces : pieces \in [1..n -> PieceChoices]
  /\ cfg \in MSCfgs
  /\ attr_file = [cur_diffs |-> 3]
  /\ pc = "constructing"
  /\ all_bar_pos = <<>>
  /\ p_evs = <<>>
  /\ bar_pos_file = <<>>
  /\ piece_bar_pos = <<>>
  /\ item = NoItem
  /\ music = NoMusic
  /\ bar_events = <<>>
  /\ n_keys = 0
  /\ aug_out = <<>>
  /\ res = Res
  /\ remi_seq = <<>>

\* __init__ -> build_dataset over self.pieces; no exception leaves the loop
MSBuildPieces ==
  /\ pc = "constructing"
  /\ all_bar_pos' = BuildLoop(pieces)
  /\ pc' = "ready"
  /\ UNCHANGED <<pieces, res, remi_seq, bar_pos_file, p_evs, attr_file, cfg,
                 piece_bar_pos, item, music, bar_events, n_keys, aug_out>>

\* __getitem__(idx) for idx < len(self.pieces): the tokens of pieces[idx]
\* with self.piece_bar_pos[idx], which raises IndexError past the list's end
MSGetItemAt ==
  /\ pc \in {"ready", "sampled", "item_error"}
  /\ \E idx \in 0..(Len(pieces) - 1) :
       IF idx >= Len(all_bar_pos)
       THEN item' = NoItem /\ pc' = "item_error" /\ p_evs' = pieces[idx + 1]
                           /\ piece_bar_pos' = <<>>
       ELSE \E st \in PickedStBarChoices(all_bar_pos[idx + 1], cfg.model_max_bars,
                                         cfg.appoint_st_bar) :
              LET it == ms_getitem(pieces[idx + 1], all_bar_pos[idx + 1],
                                   attr_file.cur_diffs, cfg, st)
              IN /\ item' = it
                 /\ pc' = IF it.ok THEN "sampled" ELSE "item_error"
                 /\ p_evs' = pieces[idx + 1]
                 /\ piece_bar_pos' = all_bar_pos[idx + 1]
  /\ UNCHANGED <<pieces, all_bar_pos, res, remi_seq, bar_pos_file, attr_file,
                 cfg, music, bar_events, n_keys, aug_out>>

NextPieces == MSBuildPieces \/ MSGetItemAt

SpecPieces == InitPieces /\ [][NextPieces]_vars

\* C11 (as claimed): dataset construction never passes over a piece: when
\* the boundaries of some piece cannot be derived or normalised the
\* construction fails, and after a successful construction piece_bar_pos
\* has one entry per piece, entry i being the boundary list of pieces[i].
C11_NoSilentSkip ==
  (pc # "constructing") =>
    /\ \A i \in 1..Len(pieces) :
         NormalizeBarPos(ArgWhereZero(pieces[i]), Len(pieces[i])).ok
    /\ Len(all_bar_pos) = Len(pieces)
    /\ \A i \in 1..Len(pieces) :
         all_bar_pos[i] =
           NormalizeBarPos(ArgWhereZero(pieces[i]), Len(pieces[i])).bar_pos

(***************************************************************************)
(* to_remi_event_sequence called with a resolution of the caller's choice. *)
(* The resolutions drawn are those whose position events (below res) and   *)
(* duration events (at most 2 * res) all have a key in the indexer.        *)
(***************************************************************************)
ResChoices == {12, Res}

InitEnc ==
  /\ \E n \in 0..MaxNotes : \E f \in [1..n -> 1..Len(NoteUniverse)] :
     \E layout \in {"one", "each"} : \E bl \in BarlineChoices : \E tp \in TempoChoices :
       music = [barlines |-> bl, tempos |-> tp,
                tracks |-> AsTracks([i \in 1..n |-> NoteUniverse[f[i]]], layout)]
  /\ res \in ResChoices
  /\ remi_seq = <<>>
  /\ pc = "encoding"
  /\ cfg = <<>>
  /\ attr_file = <<>>
  /\ p_evs = <<>>
  /\ bar_pos_file = <<>>
  /\ piece_bar_pos = <<>>
  /\ item = NoItem
  /\ bar_events = <<>>
  /\ n_keys = 0
  /\ aug_out = <<>>
  /\ pieces = <<>>
  /\ all_bar_pos = <<>>

\* seq = to_remi_event_sequence(music, res); seq.indexer is get_remi_indexer()
ToRemiEventSequence ==
  /\ pc = "encoding"
  /\ LET r == to_remi_event_sequence(music, res)
     IN /\ remi_seq' = r.seq
        /\ pc' = IF r.ok THEN "encoded" ELSE "encode_error"
  /\ UNCHANGED <<music, res, cfg, attr_file, p_evs, bar_pos_file, piece_bar_pos,
                 item, bar_events, n_keys, aug_out, pieces, all_bar_pos>>

NextEnc == ToRemiEventSequence

SpecEnc == InitEnc /\ [][NextEnc]_vars

\* V, the size of the indexer attached to the sequence
V == Len(RemiKeys)

\* the key RemiKeys holds for code c, if any, is key
HasCode(key, c) == c \in 0..(V - 1) /\ RemiKeys[c + 1] = key

\* decoding then re-encoding any code in [0, V) returns that code
VocabRoundTrip == \A c \in 0..(V - 1) : get_remi_indexer(RemiKeys[c + 1]) = c

\* C12 (as claimed): the vocabulary of an encoded sequence is a bijection
\* between event strings and the codes 0..V-1, assigned consecutively in
\* the order bar, eos, note_on_0..127, note_duration_1..64,
\* note_velocity_0..31, position_0..res-1, tempo_30..209, with
\* V = 2 + 128 + 64 + 32 + res + 180 for the res the encoder was run with.
C12_VocabularyBijection ==
  (pc = "encoded") =>
    /\ VocabRoundTrip
    /\ V = 2 + 128 + 64 + 32 + res + 180
    /\ HasCode(<<"bar">>, 0) /\ HasCode(<<"eos">>, 1)
    /\ \A i \in 0..127 : HasCode(<<"note_on", i>>, 2 + i)
    /\ \A i \in 1..64 : HasCode(<<"note_duration", i>>, 129 + i)
    /\ \A i \in 0..31 : HasCode(<<"note_velocity", i>>, 194 + i)
    /\ \A i \in 0..(res - 1) : HasCode(<<"position", i>>, 226 + i)
    /\ \A i \in 30..209 : HasCode(<<"tempo", i>>, 226 + res + i - 30)

\* the stream without its last event, read as groups: a bar event alone, or
\* a position event followed by a tempo event or by the triplet note_on,
\* note_velocity, note_duration; no other reading is accepted
RECURSIVE ParseGroups(_)
ParseGroups(s) ==
  IF Len(s) = 0 THEN [ok |-> TRUE, groups |-> <<>>]
  ELSE IF s[1] = <<"bar">>
  THEN LET r == ParseGroups(Tail(s))
       IN [ok |-> r.ok,
           groups |-> <<[position |-> None, events |-> <<s[1]>>]>> \o r.groups]
  ELSE IF s[1][1] = "position" /\ Len(s) >= 2 /\ s[2][1] = "tempo"
  THEN LET r == ParseGroups(SubSeq(s, 3, Len(s)))
       IN [ok |-> r.ok,
           groups |-> <<[position |-> s[1][2], events |-> <<s[2]>>]>> \o r.groups]
  ELSE IF /\ s[1][1] = "position" /\ Len(s) >= 4 /\ s[2][1] = "note_on"
          /\ s[3][1] = "note_velocity" /\ s[4][1] = "note_duration"
  THEN LET r == ParseGroups(SubSeq(s, 5, Len(s)))
       IN [ok |-> r.ok,
           groups |-> <<[position |-> s[1][2], events |-> SubSeq(s, 2, 4)]>>
                      \o r.groups]
  ELSE [ok |-> FALSE, groups |-> <<>>]

\* the boundaries of the music object: its barlines, led by 0
Boundaries ==
  IF Len(music.barlines) > 0 /\ music.barlines[1] # 0
  THEN <<0>> \o music.barlines ELSE music.barlines

\* the groups of the music object in insertion order (bar markers, then
\* tempos, then the notes of positive duration), each with its quantized
\* (measure_idx, position)
GroupsInInsertionOrder ==
  LET mt == SortSet({Boundaries[i] : i \in 1..Len(Boundaries)})
      kept == Sounding(Concat(music.tracks))
  IN [i \in 1..Len(Boundaries) |->
        [key |-> get_measure_position(mt, Boundaries[i], res),
         position |-> None,
         events |-> <<to_bar_event>>]]
     \o [i \in 1..Len(music.tempos) |->
        LET k == get_measure_position(mt, music.tempos[i].time, res)
        IN [key |-> k, position |-> k[2],
            events |-> <<to_tempo_event(Min(209, Max(music.tempos[i].qpm, 30)))>>]]
     \o [i \in 1..Len(kept) |->
        LET k == get_measure_position(mt, kept[i].time, res)
        IN [key |-> k, position |-> k[2],
            events |-> <<to_note_on_event(kept[i].pitch),
                         to_note_velocity_event(kept[i].velocity),
                         to_note_duration_event(
                           Min(Max(kept[i].duration, 1), res * 2))>>]]

KeyLess(a, b) == a[1] < b[1] \/ (a[1] = b[1] /\ a[2] < b[2])

\* the place of group i in non-decreasing key order, ties in insertion order
RankOf(G, i) ==
  Cardinality({j \in 1..Len(G) : KeyLess(G[j].key, G[i].key)})
  + Cardinality({j \in 1..(i - 1) : G[j].key = G[i].key}) + 1

\* C13: when the music object has a note of positive duration, the stream
\* to_remi_event_sequence returns is its groups in non-decreasing
\* (measure_idx, position) order with ties in insertion order (bar markers,
\* then tempos, then notes): one bar event per boundary, every tempo and
\* every note group right after a position event carrying the group's
\* quantized position in [0, res), every note the contiguous triplet
\* note_on, note_velocity, note_duration, and eos once, as the last event.
C13_EventStreamOrder ==
  (pc = "encoded" /\ Len(Sounding(Concat(music.tracks))) > 0) =>
    LET G == GroupsInInsertionOrder
        parsed == ParseGroups(Front(remi_seq))
    IN /\ Len(remi_seq) > 0 /\ Last(remi_seq) = <<"eos">>
       /\ Cardinality({i \in 1..Len(remi_seq) : remi_seq[i] = <<"eos">>}) = 1
       /\ Cardinality({i \in 1..Len(remi_seq) : remi_seq[i] = <<"bar">>})
            = Len(Boundaries)
       /\ parsed.ok
       /\ Len(parsed.groups) = Len(G)
       /\ \A i \in 1..Len(G) :
            /\ parsed.groups[RankOf(G, i)].events = G[i].events
            /\ parsed.groups[RankOf(G, i)].position = G[i].position
       /\ \A r \in 1..Len(parsed.groups) :
            parsed.groups[r].position # None =>
              parsed.groups[r].position \in 0..(res - 1)

\* C13 witness: a stream with a bar marker, a tempo and a note tied at
\* (0, 0) and kept in that order, a second note at a later position, and
\* the second bar marker, inserted before the tempo, emitted after the notes
C13_Witness ==
  /\ pc = "encoded"
  /\ Len(Sounding(Concat(music.tracks))) = 2
  /\ Len(remi_seq) = 13
  /\ remi_seq[1] = <<"bar">>
  /\ remi_seq[2] = <<"position", 0>> /\ remi_seq[3] = <<"tempo", 120>>
  /\ remi_seq[4] = <<"position", 0>> /\ remi_seq[5] = <<"note_on", 60>>
  /\ remi_seq[8][1] = "position" /\ remi_seq[8][2] > 0
  /\ remi_seq[12] = <<"bar">>
  /\ remi_seq[13] = <<"eos">>

====
